---- MODULE Spec2Model ----
(***************************************************************************)
(* news_service: the article store (PgStore), the LLM client               *)
(* (llm.Client.SummarizeArticleText) and the orchestration service         *)
(* (Service.Ingest, Service.SummarizeArticle).                             *)
(*                                                                         *)
(* Texts that the program only copies (titles, descriptions, timestamps,   *)
(* identifiers) are TLA+ strings.  Texts that the program inspects,        *)
(* trims or concatenates (HTTP response bodies, summaries) are sequences   *)
(* of one-character strings.                                               *)
(***************************************************************************)
EXTENDS Integers, Sequences, FiniteSets, TLC

(***************************************************************************)
(* JSON values as encoding/json decodes them into `any`.                   *)
(***************************************************************************)
JStr(s) == [t |-> "str", s |-> s]
JNum == [t |-> "num"]
JNull == [t |-> "null"]
JArr(e) == [t |-> "arr", e |-> e]
JObj(f) == [t |-> "obj", f |-> f]
NotJSON == [t |-> "invalid"]

EmptyMap == [k \in {} |-> JNull]

IsString(v) == v.t = "str"
IsArray(v) == v.t = "arr"
IsMap(v) == v.t = "obj"
HasKey(m, k) == k \in DOMAIN m.f

(***************************************************************************)
(* The bytes of a JSON document.  Keys are written in KeyOrder.            *)
(***************************************************************************)
KeyOrder == <<"response", "text", "choices", "results", "message", "content">>

RECURSIVE Marshal(_)
RECURSIVE MarshalElems(_, _)
RECURSIVE MarshalFields(_, _, _)
Marshal(v) ==
    CASE v.t = "str" -> <<"\"">> \o v.s \o <<"\"">>
      [] v.t = "num" -> <<"7">>
      [] v.t = "null" -> <<"null">>
      [] v.t = "arr" -> <<"[">> \o MarshalElems(v.e, 1) \o <<"]">>
      [] v.t = "obj" -> <<"{">> \o MarshalFields(v.f, 1, TRUE) \o <<"}">>

MarshalElems(e, i) ==
    IF i > Len(e) THEN <<>>
    ELSE (IF i > 1 THEN <<",">> ELSE <<>>) \o Marshal(e[i]) \o MarshalElems(e, i + 1)

MarshalFields(f, i, first) ==
    IF i > Len(KeyOrder) THEN <<>>
    ELSE IF KeyOrder[i] \in DOMAIN f
         THEN (IF first THEN <<>> ELSE <<",">>)
              \o <<"\"", KeyOrder[i], "\"", ":">> \o Marshal(f[KeyOrder[i]])
              \o MarshalFields(f, i + 1, FALSE)
         ELSE MarshalFields(f, i + 1, first)

(***************************************************************************)
(* bytes.TrimSpace                                                         *)
(***************************************************************************)
IsSpace(c) == c \in {" ", "\n", "\t"}

RECURSIVE TrimLeft(_)
TrimLeft(s) ==
    IF s # <<>> /\ IsSpace(Head(s)) THEN TrimLeft(Tail(s)) ELSE s

RECURSIVE TrimRight(_)
TrimRight(s) ==
    IF s # <<>> /\ IsSpace(s[Len(s)]) THEN TrimRight(SubSeq(s, 1, Len(s) - 1)) ELSE s

TrimSpace(s) == TrimRight(TrimLeft(s))

(***************************************************************************)
(* A response body: the bytes on the wire, and what json.Unmarshal makes   *)
(* of them (NotJSON when it returns an error).  JSON documents may be      *)
(* surrounded by whitespace; json.Unmarshal accepts that.                  *)
(***************************************************************************)
JSONBody(lead, doc, trail) == [raw |-> lead \o Marshal(doc) \o trail, doc |-> doc]
TextBody(chars) == [raw |-> chars, doc |-> NotJSON]

Unmarshal(respBody) == respBody.doc

(***************************************************************************)
(* Errors.  fmt.Errorf("op: %w", e) is [op, wraps]; the non-2xx error of   *)
(* the client is built with %d and %s and wraps nothing.                   *)
(***************************************************************************)
NoErr == [op |-> "nil"]
Wrap(op, e) == [op |-> op, wraps |-> e]
NetErr == [op |-> "net"]
DbErr == [op |-> "db"]
StatusErr(status, raw) == [op |-> "llm request failed", status |-> status, body |-> raw]

Ok(text) == [text |-> text, err |-> NoErr]
Fail(e) == [text |-> <<>>, err |-> e]

(***************************************************************************)
(* llm.Client.SummarizeArticleText, from the HTTP exchange on.             *)
(* An exchange is what c.hc.Do and io.ReadAll hand back: either Do's       *)
(* error, or a status with the bytes read from the body (the error of      *)
(* io.ReadAll is discarded, so the bytes read are the body).               *)
(***************************************************************************)
DoFails == [do |-> "error"]
Response(status, body) == [do |-> "ok", status |-> status, body |-> body]

\* v.(string) with ok && s != "": the string, or empty when the rule fails
FieldString(m, k) ==
    IF HasKey(m, k) /\ IsString(m.f[k]) THEN m.f[k].s ELSE <<>>

\* 1) m["response"]
RuleResponse(m) == FieldString(m, "response")

\* 2) m["text"]
RuleText(m) == FieldString(m, "text")

\* arr[0].(map[string]any) of m["choices"], when there is one
HasFirstChoice(m) ==
    /\ HasKey(m, "choices")
    /\ IsArray(m.f["choices"])
    /\ Len(m.f["choices"].e) > 0
    /\ IsMap(m.f["choices"].e[1])

FirstChoice(m) == m.f["choices"].e[1]

\* 3) choices -> first -> text
RuleChoiceText(m) ==
    IF HasFirstChoice(m) THEN FieldString(FirstChoice(m), "text") ELSE <<>>

\* 3b) choices -> first -> message -> content
RuleChoiceMessage(m) ==
    IF /\ HasFirstChoice(m)
       /\ HasKey(FirstChoice(m), "message")
       /\ IsMap(FirstChoice(m).f["message"])
    THEN FieldString(FirstChoice(m).f["message"], "content")
    ELSE <<>>

\* what one element of m["results"] adds to buf
ResultsItem(it) ==
    IF ~IsMap(it) THEN <<>>
    ELSE IF HasKey(it, "response")
         THEN (IF IsString(it.f["response"]) THEN it.f["response"].s ELSE <<>>)
         ELSE IF HasKey(it, "text")
              THEN (IF IsString(it.f["text"]) THEN it.f["text"].s ELSE <<>>)
              ELSE <<>>

RECURSIVE ResultsBuf(_, _)
ResultsBuf(arr, i) ==
    IF i > Len(arr) THEN <<>> ELSE ResultsItem(arr[i]) \o ResultsBuf(arr, i + 1)

\* 4) results
RuleResults(m) ==
    IF HasKey(m, "results") /\ IsArray(m.f["results"]) /\ Len(m.f["results"].e) > 0
    THEN ResultsBuf(m.f["results"].e, 1)
    ELSE <<>>

\* the return of the json.Unmarshal error branch
NotJSONResult(respBody) == respBody.raw

\* the last return of SummarizeArticleText
Fallback(respBody) == TrimSpace(respBody.raw)

ParseShapes(respBody) ==
    LET parsed == Unmarshal(respBody) IN
    IF parsed.t = "invalid" THEN NotJSONResult(respBody)
    ELSE IF ~IsMap(parsed) THEN Fallback(respBody)
    ELSE IF RuleResponse(parsed) # <<>> THEN RuleResponse(parsed)
    ELSE IF RuleText(parsed) # <<>> THEN RuleText(parsed)
    ELSE IF RuleChoiceText(parsed) # <<>> THEN RuleChoiceText(parsed)
    ELSE IF RuleChoiceMessage(parsed) # <<>> THEN RuleChoiceMessage(parsed)
    ELSE IF RuleResults(parsed) # <<>> THEN RuleResults(parsed)
    ELSE Fallback(respBody)

StatusFailedMutant(status) == status < 200 \/ status > 300
StatusFailed(status) == status < 200 \/ status >= 300

SummarizeArticleText(x) ==
    IF x.do = "error" THEN Fail(Wrap("llm request failed", NetErr))
    ELSE IF StatusFailed(x.status) THEN Fail(StatusErr(x.status, x.body.raw))
    ELSE Ok(ParseShapes(x.body))

(***************************************************************************)
(* Response bodies the endpoint may send.                                  *)
(***************************************************************************)
Field(k, v) == k :> v
Fields(S) == {EmptyMap} \cup S

ResponseFields ==
    {Field("response", v) : v \in {JStr(<<>>), JStr(<<"A">>), JNum}}

TextFields ==
    {Field("text", v) : v \in {JStr(<<>>), JStr(<<"B">>), JNull}}

Msg(content) == JObj(Field("message", JObj(Field("content", content))))

ChoicesFields ==
    {Field("choices", v) : v \in
        { JArr(<<>>),
          JArr(<<JObj(Field("text", JStr(<<"C">>)))>>),
          JArr(<<JObj(Field("text", JStr(<<"C">>))), JObj(Field("text", JStr(<<"Z">>)))>>),
          JArr(<<JObj(Field("text", JStr(<<>>)) @@ Msg(JStr(<<"D">>)).f)>>),
          JArr(<<JObj(Field("text", JNum) @@ Msg(JStr(<<>>)).f)>>),
          JArr(<<Msg(JStr(<<"D">>))>>),
          JArr(<<JNum, JObj(Field("text", JStr(<<"C">>)))>>),
          JStr(<<"C">>) }}

ResultsFields ==
    {Field("results", v) : v \in
        { JArr(<<>>),
          JArr(<<JObj(Field("text", JStr(<<"E">>))), JObj(Field("response", JStr(<<"F">>)))>>),
          JArr(<<JObj(Field("response", JStr(<<"F">>)) @@ Field("text", JStr(<<"E">>)))>>),
          JArr(<<JObj(Field("response", JStr(<<>>)) @@ Field("text", JStr(<<"E">>)))>>),
          JArr(<<JObj(Field("response", JNum) @@ Field("text", JStr(<<"E">>)))>>),
          JArr(<<JNum, JObj(Field("text", JStr(<<"E">>)))>>),
          JArr(<<JObj(Field("response", JStr(<<>>)))>>),
          JObj(Field("text", JStr(<<"E">>))) }}

Objects ==
    {JObj(r @@ t @@ c @@ s) :
        r \in Fields(ResponseFields), t \in Fields(TextFields),
        c \in Fields(ChoicesFields), s \in Fields(ResultsFields)}

OtherDocs == {JStr(<<"A">>), JNum, JNull, JArr(<<JObj(Field("response", JStr(<<"A">>)))>>)}

Leads == {<<>>, <<" ">>}
Trails == {<<>>, <<"\n">>}

JSONBodies ==
    {JSONBody(l, d, t) : l \in Leads, d \in Objects \cup OtherDocs, t \in Trails}

TextBodies ==
    {TextBody(c) : c \in
        { <<>>, <<"p">>, <<" ", "p", "\n">>, <<"p", " ", "q">>, <<"\n">>,
          <<"{", "p">>, <<"p", "\t", " ">> }}

Bodies == JSONBodies \cup TextBodies

Statuses == {199, 200, 204, 299, 300, 404, 500}

Exchanges == {DoFails} \cup {Response(s, b) : s \in Statuses, b \in Bodies}

ServiceExchanges ==
    { DoFails,
      Response(500, TextBody(<<"e">>)),
      Response(200, JSONBody(<<>>, JObj(Field("response", JStr(<<"A">>))), <<>>)),
      Response(200, TextBody(<<" ", "p", "\n">>)) }

(***************************************************************************)
(* models.Article and dbtypes.StringSlice.                                 *)
(* A StringSlice is nil or a list; PublishedAt is "zero" (time.Time{}) or  *)
(* an instant; a missing latitude/longitude decodes to 0.                  *)
(***************************************************************************)
NilSlice == [nil |-> TRUE, v |-> <<>>]
Slice(v) == [nil |-> FALSE, v |-> v]

Article(id, title, desc, at, cats, lat, lon, sum) ==
    [ID |-> id, Title |-> title, Description |-> desc, PublishedAt |-> at,
     Categories |-> cats, Latitude |-> lat, Longitude |-> lon, LLMSummary |-> sum]

\* StringSlice.Value: the jsonb array written for the slice (nil -> "[]")
Value(s) == IF s.nil THEN <<>> ELSE s.v

\* StringSlice.Scan of a jsonb array: json.Unmarshal makes a non-nil slice
ScanMutant(src) == IF src = <<>> THEN NilSlice ELSE Slice(src)
Scan(src) == Slice(src)

\* the arguments of tx.Exec(stmt, ...) in SaveMany, as the row they describe
ExecArgs(a) ==
    [id |-> a.ID, title |-> a.Title, description |-> a.Description,
     published_at |-> a.PublishedAt, categories |-> Value(a.Categories),
     latitude |-> a.Latitude, longitude |-> a.Longitude, llm_summary |-> a.LLMSummary]

\* db.Select into []*models.Article
ScanRow(r) ==
    Article(r.id, r.title, r.description, r.published_at, Scan(r.categories),
            r.latitude, r.longitude, r.llm_summary)

(***************************************************************************)
(* The articles table: a list of rows, in insertion order.                 *)
(***************************************************************************)
RowsOf(rows, id) == {i \in DOMAIN rows : rows[i].id = id}

\* INSERT ... ON CONFLICT (id) DO UPDATE SET <every column> = EXCLUDED.<column>
UpsertMutant(rows, r) == Append(rows, r)
UpsertKeepMutant(rows, r) == IF RowsOf(rows, r.id) # {} THEN rows ELSE Append(rows, r)
Upsert(rows, r) ==
    IF RowsOf(rows, r.id) # {}
    THEN [i \in DOMAIN rows |-> IF rows[i].id = r.id THEN r ELSE rows[i]]
    ELSE Append(rows, r)

\* uuid.New().String(): the n-th identifier generated
UuidNames == <<"u1">>

\* the defaults SaveMany fills in before tx.Exec
Defaults(a, uuid) ==
    [a EXCEPT !.ID = IF @ = "" THEN uuid ELSE @,
              !.Categories = IF @.nil THEN Slice(<<>>) ELSE @,
              !.PublishedAt = IF @ = "zero" THEN "nowUTC" ELSE @]

\* the articles of a batch as the loop of SaveMany leaves them, `used`
\* identifiers having been generated before
RECURSIVE Prepared(_, _)
Prepared(articles, used) ==
    IF articles = <<>> THEN <<>>
    ELSE <<Defaults(Head(articles), IF Head(articles).ID = "" THEN UuidNames[used + 1] ELSE "")>>
         \o Prepared(Tail(articles), IF Head(articles).ID = "" THEN used + 1 ELSE used)

\* the transaction's view of the table after the first n statements
RECURSIVE TxExec(_, _, _)
TxExec(rows, prepared, n) ==
    IF n = 0 THEN rows
    ELSE Upsert(TxExec(rows, prepared, n - 1), ExecArgs(prepared[n]))

\* tx.Rollback() and a failed tx.Commit(): what the table holds afterwards
RollbackMutant(rows, tx) == tx
Rollback(rows, tx) == rows
CommitFailed(rows, tx) == rows

\* How a SaveMany call goes: 0 = every step succeeds; k in 1..n = the k-th
\* tx.Exec fails; n+1 = tx.Commit fails; n+2 = Beginx fails.
Fails(n) == 0 .. (n + 2)

NumEmptyIDs(articles) == Cardinality({i \in DOMAIN articles : articles[i].ID = ""})

\* PgStore.SaveMany: the table and the error it returns, and the articles
\* as the loop left them
SaveMany(rows, articles, fail, used) ==
    LET n == Len(articles)
        prepared == Prepared(articles, used)
        reached == IF fail = n + 2 THEN 0 ELSE IF fail \in 1..n THEN fail ELSE n
        left == [i \in 1..n |-> IF i <= reached THEN prepared[i] ELSE articles[i]]
        gen == NumEmptyIDs(SubSeq(articles, 1, reached))
    IN  IF fail = n + 2 THEN
            [rows |-> rows, err |-> DbErr, articles |-> left, gen |-> gen]
        ELSE IF fail \in 1..n THEN
            [rows |-> Rollback(rows, TxExec(rows, prepared, fail - 1)),
             err |-> [op |-> "insert article", id |-> prepared[fail].ID, wraps |-> DbErr],
             articles |-> left, gen |-> gen]
        ELSE IF fail = n + 1 THEN
            [rows |-> CommitFailed(rows, TxExec(rows, prepared, n)),
             err |-> DbErr, articles |-> left, gen |-> gen]
        ELSE
            [rows |-> TxExec(rows, prepared, n),
             err |-> NoErr, articles |-> left, gen |-> gen]

\* PgStore.GetByIDs for one id: WHERE id = $1 LIMIT 1
GetByIDsMutant(rows, id) == rows
GetByIDs(rows, id) ==
    IF RowsOf(rows, id) = {} THEN <<>>
    ELSE <<rows[CHOOSE i \in RowsOf(rows, id) : \A j \in RowsOf(rows, id) : i <= j]>>

\* PgStore.UpdateLLMSummary: UPDATE articles SET llm_summary = $1 WHERE id = $2
UpdateLLMSummaryMutant(rows, id, text) ==
    [i \in DOMAIN rows |->
        IF rows[i].id = id THEN [rows[i] EXCEPT !.llm_summary = @ \o text] ELSE rows[i]]
UpdateLLMSummary(rows, id, text) ==
    [i \in DOMAIN rows |->
        IF rows[i].id = id THEN [rows[i] EXCEPT !.llm_summary = text] ELSE rows[i]]

\* Service.Ingest: the defaults it sets before SaveMany
IngestDefaults(articles) ==
    [i \in DOMAIN articles |->
        [articles[i] EXCEPT !.PublishedAt = IF @ = "zero" THEN "now" ELSE @]]

\* Service.SummarizeArticle: `if len(arts) == 0`, and the error it returns
ErrNotFound == [op |-> "article not found"]

\* Service.SummarizeArticle: description if present, otherwise title
\* (every text of the model is shorter than the 30000-byte cut)
Content(a) == IF a.Description = "" THEN a.Title ELSE a.Description

\* llm.buildPrompt
buildPrompt(title, content) == [title |-> title, article |-> content]

\* Service.SummarizeArticle: `if err != nil` after the client call and after SaveMany
LLMFailed(o) == o.err # NoErr
SaveFailedMutant(e) == FALSE
SaveFailed(e) == e # NoErr

(***************************************************************************)
(* Bounds and inputs.                                                      *)
(***************************************************************************)
MaxOps == 3

GivenIds == {"a"}
CallIds == {"a", "zz"}
AllIds == GivenIds \cup CallIds \cup {UuidNames[i] : i \in DOMAIN UuidNames}

Articles ==
    { Article("a", "T1", "", "zero", NilSlice, 0, 0, <<>>),
      Article("a", "T2", "D2", "t1", Slice(<<"c">>), 1, 1, <<>>),
      Article("", "T1", "D2", "t1", Slice(<<>>), 0, 1, <<>>) }

Batches == {<<x>> : x \in Articles} \cup {<<x, y>> : x \in Articles, y \in Articles}

Procs == {"p1"}

(***************************************************************************)
(* State.                                                                  *)
(*   store    the articles table                                           *)
(*   uuids    how many identifiers uuid.New has generated                  *)
(*   pc, art, summary, res   a SummarizeArticle call: where it is, its     *)
(*            locals `art` and `summary`, and what the last call returned  *)
(*   exch, out   an HTTP exchange and what SummarizeArticleText returns    *)
(*            for it                                                       *)
(* History, not read by the program:                                       *)
(*   nIngests, nCalls   calls made so far                                  *)
(*   llmReqs  requests sent to the endpoint, per article id                *)
(*   call     the steps of the call in progress (or of the last call)      *)
(*   prev     per id, the last successful summarization since the last     *)
(*            ingest of the id                                             *)
(*   latest   per id, the row written by the last successful ingest        *)
(*   ing      the last Ingest call                                         *)
(*   fin      the last successful SummarizeArticle call                    *)
(*   lastOp   the last step taken                                          *)
(*   nocoord  the ids whose last ingested payload had no latitude/longitude *)
(*   req, resp   the last query request at the HTTP boundary and its       *)
(*            response                                                     *)
(***************************************************************************)
VARIABLES store, uuids, pc, art, summary, res, exch, out,
          nIngests, nCalls, llmReqs, call, prev, latest, ing, fin, lastOp,
          nocoord, req, resp

vars == <<store, uuids, pc, art, summary, res, exch, out,
          nIngests, nCalls, llmReqs, call, prev, latest, ing, fin, lastOp,
          nocoord, req, resp>>

svcVars == <<store, uuids, pc, art, summary, res,
             nIngests, nCalls, llmReqs, call, prev, latest, ing, fin, lastOp,
             nocoord, req, resp>>

NoArticle == Article("", "", "", "zero", NilSlice, 0, 0, <<>>)
NoRow == ExecArgs(NoArticle)
NoBody == TextBody(<<>>)
Pending == [text |-> <<>>, err |-> [op |-> "pending"]]
NoPrev == [ok |-> FALSE, body |-> NoBody, persisted |-> {}]
NoLatest == [ok |-> FALSE, row |-> NoRow]
NoReq == [endpoint |-> "none"]
NoResp == [status |-> 0, limit |-> 0, data |-> <<>>]

NewCall(id, cached) ==
    [id |-> id, active |-> TRUE, missing |-> FALSE, cached |-> cached,
     repeat |-> FALSE, reqs |-> 0, writes |-> <<>>, body |-> NoBody,
     old |-> {}, ingests |-> 0,
     prompt |-> buildPrompt("", ""),
     fetchErr |-> NoErr, llmErr |-> NoErr, saveErr |-> NoErr, updErr |-> NoErr]

InitService ==
    /\ store = <<>>
    /\ uuids = 0
    /\ pc = [p \in Procs |-> "idle"]
    /\ art = [p \in Procs |-> NoArticle]
    /\ summary = [p \in Procs |-> <<>>]
    /\ res = [p \in Procs |-> Pending]
    /\ nIngests = 0
    /\ nCalls = 0
    /\ llmReqs = [id \in AllIds |-> 0]
    /\ call = [p \in Procs |-> [NewCall("zz", FALSE) EXCEPT !.active = FALSE]]
    /\ prev = [id \in AllIds |-> NoPrev]
    /\ latest = [id \in AllIds |-> NoLatest]
    /\ ing = [batch |-> <<>>, fail |-> 0, err |-> NoErr, saved |-> <<>>, replaced |-> {}]
    /\ fin = [id |-> "zz", body |-> NoBody, prev |-> NoPrev, persisted |-> {}, rows |-> 0]
    /\ lastOp = "none"
    /\ nocoord = {}
    /\ req = NoReq
    /\ resp = NoResp

Init ==
    /\ InitService
    /\ exch = DoFails
    /\ out = Pending

\* the last article of a batch that carries the id
LastWith(articles, id) ==
    articles[CHOOSE i \in DOMAIN articles :
                /\ articles[i].ID = id
                /\ \A j \in DOMAIN articles : articles[j].ID = id => j <= i]

IdsIn(articles) == {articles[i].ID : i \in DOMAIN articles}

(***************************************************************************)
(* Service.Ingest(articles): defaults, then one SaveMany transaction.      *)
(***************************************************************************)
Ingest(batch, fail) ==
    /\ nIngests + nCalls < MaxOps
    /\ uuids + NumEmptyIDs(batch) <= Len(UuidNames)
    /\ LET r == SaveMany(store, IngestDefaults(batch), fail, uuids)
           ok == r.err = NoErr
           ids == IdsIn(r.articles)
       IN /\ store' = r.rows
          /\ uuids' = uuids + r.gen
          /\ ing' = [batch |-> batch, fail |-> fail, err |-> r.err, saved |-> r.articles,
                     replaced |-> {id \in ids : \E i \in RowsOf(store, id) :
                                      store[i] # ExecArgs(LastWith(r.articles, id))}]
          /\ latest' = [id \in AllIds |->
                          IF ok /\ id \in ids
                          THEN [ok |-> TRUE, row |-> ExecArgs(LastWith(r.articles, id))]
                          ELSE latest[id]]
          /\ prev' = [id \in AllIds |-> IF ok /\ id \in ids THEN NoPrev ELSE prev[id]]
    /\ nIngests' = nIngests + 1
    /\ lastOp' = "Ingest"
    /\ UNCHANGED <<pc, art, summary, res, nCalls, llmReqs, call, fin, exch, out, nocoord, req, resp>>

(***************************************************************************)
(* Service.SummarizeArticle(id), one action per call it makes.             *)
(***************************************************************************)
\* s.repo.GetByIDs, the not-found check, art := arts[0]
StartCall(p, id, fetchFails) ==
    /\ pc[p] = "idle"
    /\ nIngests + nCalls < MaxOps
    /\ nCalls' = nCalls + 1
    /\ lastOp' = "StartCall"
    /\ LET arts == GetByIDs(store, id)
           c == [NewCall(id, prev[id].ok) EXCEPT
                    !.missing = ~fetchFails /\ RowsOf(store, id) = {},
                    !.old = {store[i] : i \in RowsOf(store, id)},
                    !.ingests = nIngests]
       IN IF fetchFails THEN
              /\ res' = [res EXCEPT ![p] = Fail(Wrap("fetch article", DbErr))]
              /\ call' = [call EXCEPT ![p] = [c EXCEPT !.fetchErr = DbErr]]
              /\ UNCHANGED <<pc, art>>
          ELSE IF Len(arts) = 0 THEN
              /\ res' = [res EXCEPT ![p] = Fail(ErrNotFound)]
              /\ call' = [call EXCEPT ![p] = c]
              /\ UNCHANGED <<pc, art>>
          ELSE
              /\ res' = [res EXCEPT ![p] = Pending]
              /\ call' = [call EXCEPT ![p] = c]
              /\ art' = [art EXCEPT ![p] = ScanRow(arts[1])]
              /\ pc' = [pc EXCEPT ![p] = "llm"]
    /\ UNCHANGED <<store, uuids, summary, nIngests, llmReqs, prev, latest, ing, fin, exch, out, nocoord, req, resp>>

\* s.llmClient.SummarizeArticleText(ctx, art.Title, content); art.LLMSummary = summary
CallLLM(p, x) ==
    /\ pc[p] = "llm"
    /\ lastOp' = "CallLLM"
    /\ LET o == SummarizeArticleText(x)
           id == call[p].id
           c == [call[p] EXCEPT !.reqs = @ + 1,
                                !.repeat = call[p].cached /\ prev[id].ok,
                                !.body = IF x.do = "ok" THEN x.body ELSE NoBody,
                                !.prompt = buildPrompt(art[p].Title, Content(art[p])),
                                !.llmErr = o.err]
       IN /\ llmReqs' = [llmReqs EXCEPT ![id] = @ + 1]
          /\ call' = [call EXCEPT ![p] = c]
          /\ IF LLMFailed(o) THEN
                 /\ res' = [res EXCEPT ![p] = Fail(Wrap("llm summarize", o.err))]
                 /\ pc' = [pc EXCEPT ![p] = "idle"]
                 /\ UNCHANGED <<art, summary>>
             ELSE
                 /\ summary' = [summary EXCEPT ![p] = o.text]
                 /\ art' = [art EXCEPT ![p].LLMSummary = o.text]
                 /\ pc' = [pc EXCEPT ![p] = "save"]
                 /\ UNCHANGED res
    /\ UNCHANGED <<store, uuids, nIngests, nCalls, prev, latest, ing, fin, exch, out, nocoord, req, resp>>

\* s.repo.SaveMany([]*models.Article{art})
SaveSummary(p, fail) ==
    /\ pc[p] = "save"
    /\ lastOp' = "SaveSummary"
    /\ LET r == SaveMany(store, <<art[p]>>, fail, uuids) IN
          /\ store' = r.rows
          /\ uuids' = uuids + r.gen
          /\ call' = [call EXCEPT ![p].writes = Append(@, "SaveMany"), ![p].saveErr = r.err]
          /\ IF SaveFailed(r.err) THEN
                 /\ res' = [res EXCEPT ![p] = Fail(Wrap("save summary", r.err))]
                 /\ pc' = [pc EXCEPT ![p] = "idle"]
             ELSE
                 /\ pc' = [pc EXCEPT ![p] = "update"]
                 /\ UNCHANGED res
    /\ UNCHANGED <<art, summary, nIngests, nCalls, llmReqs, prev, latest, ing, fin, exch, out, nocoord, req, resp>>

\* s.repo.UpdateLLMSummary(art.ID, summary); return summary, nil
UpdateSummary(p, fails) ==
    /\ pc[p] = "update"
    /\ lastOp' = "UpdateSummary"
    /\ pc' = [pc EXCEPT ![p] = "idle"]
    /\ LET id == call[p].id
           rows == IF fails THEN store ELSE UpdateLLMSummary(store, art[p].ID, summary[p])
           persisted == {rows[i].llm_summary : i \in RowsOf(rows, id)}
       IN /\ store' = rows
          /\ call' = [call EXCEPT ![p].writes = Append(@, "UpdateLLMSummary"),
                                  ![p].updErr = IF fails THEN DbErr ELSE NoErr]
          /\ IF fails THEN
                 /\ res' = [res EXCEPT ![p] = Fail(Wrap("save summary", DbErr))]
                 /\ UNCHANGED <<prev, fin>>
             ELSE
                 /\ res' = [res EXCEPT ![p] = Ok(summary[p])]
                 /\ fin' = [id |-> id, body |-> call[p].body, prev |-> prev[id],
                            persisted |-> persisted,
                            rows |-> Cardinality(RowsOf(rows, id))]
                 /\ prev' = [prev EXCEPT ![id] =
                                [ok |-> TRUE, body |-> call[p].body, persisted |-> persisted]]
    /\ UNCHANGED <<uuids, art, summary, nIngests, nCalls, llmReqs, latest, ing, exch, out, nocoord, req, resp>>

Next ==
    \/ \E b \in Batches : \E f \in Fails(Len(b)) : Ingest(b, f)
    \/ \E p \in Procs : \E id \in CallIds : \E ff \in BOOLEAN : StartCall(p, id, ff)
    \/ \E p \in Procs : \E x \in ServiceExchanges : CallLLM(p, x)
    \/ \E p \in Procs : \E f \in Fails(1) : SaveSummary(p, f)
    \/ \E p \in Procs : \E ff \in BOOLEAN : UpdateSummary(p, ff)

Spec == Init /\ [][Next]_vars

(***************************************************************************)
(* The client alone: one call of SummarizeArticleText per exchange.        *)
(***************************************************************************)
InitClient ==
    /\ InitService
    /\ exch \in Exchanges
    /\ out = Pending

Request ==
    /\ out = Pending
    /\ out' = SummarizeArticleText(exch)
    /\ UNCHANGED exch
    /\ UNCHANGED svcVars

NextClient == Request

SpecClient == InitClient /\ [][NextClient]_vars

(***************************************************************************)
(* Properties of the service (specification Spec).                         *)
(***************************************************************************)
Finished(p) == pc[p] = "idle" /\ call[p].active

\* C1: once a SummarizeArticle(id) has succeeded and its summary is stored,
\* a later SummarizeArticle(id) on the unchanged article sends no request
\* to the generative-text endpoint.
C1_ServedFromStore ==
    \A p \in Procs : ~call[p].repeat

\* C2: two successful SummarizeArticle(id) calls in sequence, the endpoint
\* answering both with the same body and no Ingest of id in between, leave
\* exactly one row for id, and the summary stored after the second call is
\* the summary stored after the first.
C2_IdempotentSummary ==
    (fin.prev.ok /\ fin.prev.body = fin.body)
        => /\ fin.rows = 1
           /\ fin.persisted = fin.prev.persisted

C2_Witness ==
    /\ lastOp = "UpdateSummary"
    /\ fin.prev.ok
    /\ fin.prev.body = fin.body
    /\ fin.rows = 1
    /\ fin.persisted = {<<"A">>}

\* the row an ingested article is to be stored as: its own values, the
\* ingest time for a missing timestamp, the empty list for missing categories
IngestedRow(a) ==
    [id |-> a.ID, title |-> a.Title, description |-> a.Description,
     published_at |-> IF a.PublishedAt = "zero" THEN "now" ELSE a.PublishedAt,
     categories |-> IF a.Categories.nil THEN <<>> ELSE a.Categories.v,
     latitude |-> a.Latitude, longitude |-> a.Longitude, llm_summary |-> a.LLMSummary]

\* C3: after a successful Ingest, every identifier of the batch has exactly
\* one stored row, and every field of it holds the value of the latest
\* article ingested with that identifier, whatever the row held before.
C3_UpsertLatest ==
    (lastOp = "Ingest" /\ ing.err = NoErr)
        => \A id \in IdsIn(ing.batch) \ {""} :
              /\ Cardinality(RowsOf(store, id)) = 1
              /\ \A i \in RowsOf(store, id) :
                    store[i] = IngestedRow(LastWith(ing.batch, id))

C3_Witness ==
    /\ lastOp = "Ingest"
    /\ ing.err = NoErr
    /\ nIngests = 2
    /\ "a" \in ing.replaced
    /\ Cardinality(RowsOf(store, "a")) = 1

\* C4: when a step of SaveMany fails (a tx.Exec at any position, the commit,
\* or the begin), in Ingest or in SummarizeArticle, the call returns an
\* error and the table is what it was before the call.
C4_AllOrNothing ==
    [][ /\ (lastOp' = "Ingest" /\ ing'.fail # 0)
            => (ing'.err # NoErr /\ store' = store)
        /\ \A p \in Procs :
            (lastOp' = "SaveSummary" /\ pc[p] = "save" /\ pc'[p] = "idle")
            => (res'[p].err # NoErr /\ store' = store) ]_vars

C4_Witness ==
    /\ lastOp = "Ingest"
    /\ Len(ing.batch) = 2
    /\ ing.fail = 2
    /\ ing.err # NoErr
    /\ \A i \in DOMAIN store : store[i] # ExecArgs(ing.saved[1])
    /\ ing.saved[1].ID # ing.saved[2].ID

\* C5: SummarizeArticle(id), when the fetch finds no article for id, returns
\* the not-found error, sends no request to the endpoint and makes no
\* repository write; the table is unchanged.
C5_NotFound ==
    /\ [](\A p \in Procs :
            call[p].missing
                => /\ pc[p] = "idle"
                   /\ res[p] = Fail(ErrNotFound)
                   /\ call[p].reqs = 0
                   /\ call[p].writes = <<>>)
    /\ [][\A p \in Procs :
            (lastOp' = "StartCall" /\ call'[p].missing)
                => (store' = store /\ llmReqs' = llmReqs)]_vars

C5_Witness ==
    /\ lastOp = "StartCall"
    /\ call["p1"].missing
    /\ call["p1"].id = "zz"
    /\ res["p1"] = Fail(ErrNotFound)
    /\ store # <<>>

\* C6: SummarizeArticle stops at its first failing step and returns that
\* step's error: after a fetch error no request and no write; after a
\* client error no write; after a failed SaveMany no UpdateLLMSummary; and
\* a call that returns an error returns no summary text.
C6_FirstErrorAborts ==
    \A p \in Procs :
        Finished(p) =>
            /\ call[p].fetchErr # NoErr
                => /\ call[p].reqs = 0
                   /\ call[p].writes = <<>>
                   /\ res[p].err = Wrap("fetch article", call[p].fetchErr)
            /\ call[p].llmErr # NoErr
                => /\ call[p].writes = <<>>
                   /\ res[p].err = Wrap("llm summarize", call[p].llmErr)
            /\ call[p].saveErr # NoErr
                => /\ call[p].writes = <<"SaveMany">>
                   /\ res[p].err = Wrap("save summary", call[p].saveErr)
            /\ call[p].updErr # NoErr
                => res[p].err = Wrap("save summary", call[p].updErr)
            /\ res[p].err # NoErr => res[p].text = <<>>
            /\ res[p].err = NoErr
                => /\ call[p].fetchErr = NoErr /\ call[p].llmErr = NoErr
                   /\ call[p].saveErr = NoErr /\ call[p].updErr = NoErr

C6_Witness ==
    /\ Finished("p1")
    /\ call["p1"].saveErr # NoErr
    /\ call["p1"].reqs = 1
    /\ call["p1"].writes = <<"SaveMany">>
    /\ res["p1"].err = Wrap("save summary", call["p1"].saveErr)

NonSummary(r) == [r EXCEPT !.llm_summary = <<>>]

\* C7: under every interleaving of a SummarizeArticle(id) with Ingest calls
\* for id, every non-summary field of the stored row is the value written
\* by the most recent Ingest of id.
C7_OnlySummaryMutated ==
    \A id \in AllIds :
        latest[id].ok
            => \A i \in RowsOf(store, id) :
                  NonSummary(store[i]) = NonSummary(latest[id].row)

(***************************************************************************)
(* Properties of the client (specification SpecClient).                    *)
(***************************************************************************)
Is2xx(x) == x.do = "ok" /\ x.status \in 200..299

\* a field's value when it is a non-empty string, else nothing
ClaimedString(m, k) ==
    IF k \in DOMAIN m.f /\ m.f[k].t = "str" THEN m.f[k].s ELSE <<>>

ClaimedItem(it) ==
    IF it.t # "obj" THEN <<>>
    ELSE IF ClaimedString(it, "response") # <<>> THEN ClaimedString(it, "response")
    ELSE ClaimedString(it, "text")

RECURSIVE ClaimedConcat(_)
ClaimedConcat(e) ==
    IF e = <<>> THEN <<>> ELSE ClaimedItem(Head(e)) \o ClaimedConcat(Tail(e))

ClaimedChoice(m, path) ==
    IF /\ "choices" \in DOMAIN m.f
       /\ m.f["choices"].t = "arr"
       /\ m.f["choices"].e # <<>>
       /\ m.f["choices"].e[1].t = "obj"
    THEN IF path = "text" THEN ClaimedString(m.f["choices"].e[1], "text")
         ELSE IF /\ "message" \in DOMAIN m.f["choices"].e[1].f
                 /\ m.f["choices"].e[1].f["message"].t = "obj"
              THEN ClaimedString(m.f["choices"].e[1].f["message"], "content")
              ELSE <<>>
    ELSE <<>>

ClaimedResults(m) ==
    IF "results" \in DOMAIN m.f /\ m.f["results"].t = "arr"
    THEN ClaimedConcat(m.f["results"].e)
    ELSE <<>>

ClaimedRules(m) ==
    <<ClaimedString(m, "response"), ClaimedString(m, "text"),
      ClaimedChoice(m, "text"), ClaimedChoice(m, "message"), ClaimedResults(m)>>

ClaimedText(body) ==
    LET r == ClaimedRules(body.doc)
        hits == {i \in DOMAIN r : r[i] # <<>>}
    IN  IF hits = {} THEN TrimSpace(body.raw)
        ELSE r[CHOOSE i \in hits : \A j \in hits : i <= j]

\* C8: for a 2xx body that is a JSON object the client returns the value of
\* the first rule that yields a non-empty string: response; text;
\* choices[0].text; choices[0].message.content; the response-or-text
\* strings of the elements of results, concatenated; else the trimmed body.
\* A field that is empty or not a string counts as absent.
C8_Precedence ==
    (out # Pending /\ Is2xx(exch) /\ exch.body.doc.t = "obj")
        => out = Ok(ClaimedText(exch.body))

\* C9: for a 2xx body that is not valid JSON the client returns the body
\* trimmed of leading and trailing whitespace.
C9_NonJSONTrimmed ==
    (out # Pending /\ Is2xx(exch) /\ exch.body.doc.t = "invalid")
        => out = Ok(TrimSpace(exch.body.raw))

IsTransportError(e) == "wraps" \in DOMAIN e /\ e.wraps = NetErr
IsUpstreamError(e) == "status" \in DOMAIN e /\ "body" \in DOMAIN e

\* C10: a client call ends in exactly one of three ways: the error of a
\* failed exchange (transport error); for a status outside 200..299 an
\* error carrying that status and the response body, of a different kind;
\* for any 2xx response, whatever its body, a text and no error.
C10_Outcomes ==
    out # Pending =>
        /\ exch.do = "error"
            => IsTransportError(out.err) /\ ~IsUpstreamError(out.err)
        /\ (exch.do = "ok" /\ ~Is2xx(exch))
            => /\ IsUpstreamError(out.err) /\ ~IsTransportError(out.err)
               /\ out.err.status = exch.status
               /\ out.err.body = exch.body.raw
               /\ out.text = <<>>
        /\ Is2xx(exch) => out.err = NoErr

C10_Witness ==
    /\ out # Pending
    /\ exch.do = "ok"
    /\ exch.status = 300
    /\ exch.body.doc.t = "obj"
    /\ IsUpstreamError(out.err)

(***************************************************************************)
(* The query endpoints (specification SpecQuery): POST /v1/news/ingest and *)
(* GET /v1/news/search, /category, /trending and /nearby, each handler     *)
(* with the service delegation and the table query behind it.              *)
(*                                                                         *)
(* A query parameter is absent, a text that is no number, or a number.     *)
(* Coordinates lie on the grid {0,1} x {0,1} degrees and distances are     *)
(* kept in thousandths of a kilometre, so that both are integers.          *)
(***************************************************************************)
Absent == [kind |-> "absent", n |-> 0]
Text == [kind |-> "text", n |-> 0]
Num(n) == [kind |-> "int", n |-> n]

\* c.DefaultQuery(key, default): the default only when the key is absent
DefaultQuery(param, default) == IF param.kind = "absent" THEN Num(default) ELSE param

\* strconv.Atoi
Atoi(s) == [err |-> s.kind # "int", l |-> IF s.kind = "int" THEN s.n ELSE 0]

\* strconv.ParseFloat(q.Get(key), 64): an absent key reads as "", an error
ParseFloat(s) == [err |-> s.kind # "int", v |-> IF s.kind = "int" THEN s.n ELSE 0]

Abs(x) == IF x < 0 THEN 0 - x ELSE x

Min(a, b) == IF a < b THEN a ELSE b

\* parseLimit
parseLimitMutant(s) ==
    LET r == Atoi(s)
    IN IF r.err \/ r.l < 0 THEN 10 ELSE IF r.l > 200 THEN 200 ELSE r.l
parseLimit(s) ==
    LET r == Atoi(s)
    IN IF r.err \/ r.l <= 0 THEN 10 ELSE IF r.l > 200 THEN 200 ELSE r.l

\* the limit guards of PgStore.Search, FindByCategory, All and Nearby
SearchLimit(limit) == IF limit <= 0 \/ limit > 100 THEN 10 ELSE limit
FindByCategoryLimit(limit) == IF limit <= 0 \/ limit > 100 THEN 10 ELSE limit
AllLimit(limit) == IF limit <= 0 \/ limit > 100 THEN 50 ELSE limit
NearbyLimit(limit) == IF limit <= 0 \/ limit > 200 THEN 50 ELSE limit

Table(rows) == {rows[i] : i \in DOMAIN rows}

\* ORDER BY key ASC LIMIT n over the set S, key a function on S: every
\* result the database may give, rows with equal keys coming in any order
TopN(S, key, n) ==
    LET m == Min(n, Cardinality(S))
    IN {s \in [1 .. m -> S] :
          /\ \A i, j \in 1 .. m : i < j => s[i] # s[j] /\ key[s[i]] <= key[s[j]]
          /\ \A x \in S \ {s[k] : k \in 1 .. m} : \A k \in 1 .. m : key[s[k]] <= key[x]}

\* published_at as a point in time: a given timestamp lies before the
\* ingest time
Recency(t) == IF t = "now" THEN 2 ELSE IF t = "t1" THEN 1 ELSE 0

\* ORDER BY relevance_score DESC, published_at DESC; no modelled payload
\* carries a relevance_score, so the column is 0 in every row
Ranked(S, n) ==
    TopN(S, [r \in S |-> 0 - Recency(r.published_at)], n)

\* a result row scanned into models.Article; DistanceKm is 0 unless the
\* query selects distance_km
Scanned(s) == [k \in DOMAIN s |-> [art |-> ScanRow(s[k]), DistanceKm |-> 0]]

Lower(s) ==
    IF s = "T1" THEN "t1" ELSE IF s = "T2" THEN "t2" ELSE IF s = "D2" THEN "d2" ELSE s

\* text ILIKE '%q%'; a modelled q is empty, a whole title or description
\* in either case, or a word of no article
ILike(text, q) == q = "" \/ Lower(text) = Lower(q)

\* PgStore.Search
Search(rows, q, limit) ==
    {Scanned(s) : s \in Ranked({r \in Table(rows) :
                                   ILike(r.title, q) \/ ILike(r.description, q)},
                               SearchLimit(limit))}

\* PgStore.FindByCategory: categories @> '["category"]'
FindByCategory(rows, category, limit) ==
    {Scanned(s) : s \in Ranked({r \in Table(rows) :
                                   \E k \in DOMAIN r.categories : r.categories[k] = category},
                               FindByCategoryLimit(limit))}

\* PgStore.All
All(rows, limit) == {Scanned(s) : s \in Ranked(Table(rows), AllLimit(limit))}

\* 6371 * acos(cos(radians(lat1)) * cos(radians(lat2)) * cos(radians(lon2) -
\* radians(lon1)) + sin(radians(lat1)) * sin(radians(lat2))) in double
\* precision, on the grid, rounded to thousandths of a kilometre
distance_km(lat1, lon1, lat2, lon2) ==
    IF lat1 = lat2 /\ lon1 = lon2 THEN 0
    ELSE IF lat1 = lat2 THEN (IF lat1 = 0 THEN 111195 ELSE 111178)
    ELSE IF lon1 = lon2 THEN 111195
    ELSE 157249

\* latitude IS NOT NULL: the column holds a number
IsNotNull(v) == v \in Int

\* WHERE distance_km <= $3
WithinRadiusMutant(t, radiusKm) == t
WithinRadius(t, radiusKm) == {x \in t : x.DistanceKm <= radiusKm * 1000}

\* PgStore.Nearby
Nearby(rows, lat, lon, radiusKm, limit) ==
    LET t == {[art |-> ScanRow(r),
               DistanceKm |-> distance_km(lat, lon, r.latitude, r.longitude)] :
                 r \in {x \in Table(rows) :
                           IsNotNull(x.latitude) /\ IsNotNull(x.longitude)}}
    IN TopN(WithinRadius(t, radiusKm),
            [x \in WithinRadius(t, radiusKm) |-> x.DistanceKm], NearbyLimit(limit))

\* One element of the JSON array posted to /v1/news/ingest; coords is <<>>
\* when the object has no latitude and longitude keys.
Item(id, title, desc, at, cats, coords) ==
    [id |-> id, title |-> title, description |-> desc, published_at |-> at,
     categories |-> cats, coords |-> coords]

Items ==
    { Item("a", "T1", "", "zero", NilSlice, <<>>),
      Item("a", "T2", "D2", "t1", Slice(<<"c">>), <<1, 1>>),
      Item("b", "T1", "D2", "zero", Slice(<<>>), <<0, 1>>),
      Item("c", "T2", "", "t1", Slice(<<"c">>), <<0, 0>>),
      Item("d", "T1", "", "t1", NilSlice, <<1, 0>>) }

BadJSON == <<[invalid |-> TRUE]>>

Payloads ==
    {<<x>> : x \in Items}
        \cup { <<Item("c", "T2", "", "t1", Slice(<<"c">>), <<0, 0>>),
                 Item("b", "T1", "D2", "zero", Slice(<<>>), <<0, 1>>),
                 Item("a", "T2", "D2", "t1", Slice(<<"c">>), <<1, 1>>)>>,
               <<Item("a", "T2", "D2", "t1", Slice(<<"c">>), <<1, 1>>),
                 Item("a", "T1", "", "zero", NilSlice, <<>>)>>,
               BadJSON }

\* c.BindJSON into []*models.Article: a float64 field whose key is missing
\* stays 0
BindJSON(payload) ==
    [k \in DOMAIN payload |->
        Article(payload[k].id, payload[k].title, payload[k].description,
                payload[k].published_at, payload[k].categories,
                IF payload[k].coords = <<>> THEN 0 ELSE payload[k].coords[1],
                IF payload[k].coords = <<>> THEN 0 ELSE payload[k].coords[2],
                <<>>)]

LimitParams == {Absent, Text} \cup {Num(n) : n \in {0 - 1, 0, 1, 2, 100, 101, 200, 201}}
Queries == {"", "d2", "zz"}
CategoryParams == {"", "c"}

NearbyParam(lat, lon, radius, limit) ==
    [lat |-> lat, lon |-> lon, radius |-> radius, limit |-> limit]

NearbyParams ==
    {NearbyParam(Num(la), Num(lo), Num(r), Num(l)) :
        la \in {0, 1}, lo \in {0, 1}, r \in {100, 120, 160}, l \in {1, 2}}
        \cup {NearbyParam(Num(0), Num(0), Num(160), l) : l \in LimitParams}
        \cup { NearbyParam(Absent, Num(0), Num(100), Absent),
               NearbyParam(Num(91), Num(0), Num(100), Absent),
               NearbyParam(Num(0), Num(181), Num(100), Absent),
               NearbyParam(Num(0), Num(0), Text, Absent),
               NearbyParam(Num(0), Num(0), Num(0), Absent) }

\* nCalls counts the query requests here
queryVars == <<uuids, pc, art, summary, res, llmReqs, call, prev, latest,
               ing, fin, exch, out>>

Reply(status, limit, data) == [status |-> status, limit |-> limit, data |-> data]

\* Handler.Ingest
HandlerIngest(payload, fail) ==
    /\ nIngests + nCalls < MaxOps
    /\ req' = [endpoint |-> "ingest", payload |-> payload]
    /\ IF payload = BadJSON
       THEN /\ resp' = Reply(400, 0, <<>>)
            /\ UNCHANGED <<store, nocoord>>
       ELSE LET r == SaveMany(store, IngestDefaults(BindJSON(payload)), fail, uuids)
                ok == r.err = NoErr
                ids == {payload[k].id : k \in DOMAIN payload}
                last(id) == payload[CHOOSE k \in DOMAIN payload :
                                       /\ payload[k].id = id
                                       /\ \A j \in DOMAIN payload :
                                             payload[j].id = id => j <= k]
            IN /\ store' = r.rows
               /\ resp' = Reply(IF ok THEN 201 ELSE 500, 0, <<>>)
               /\ nocoord' = IF ok
                             THEN (nocoord \ ids) \cup {id \in ids : last(id).coords = <<>>}
                             ELSE nocoord
    /\ nIngests' = nIngests + 1
    /\ lastOp' = "HandlerIngest"
    /\ UNCHANGED nCalls
    /\ UNCHANGED queryVars

\* Handler.Search
HandlerSearch(q, limit, dbFails) ==
    /\ nIngests + nCalls < MaxOps
    /\ nCalls' = nCalls + 1
    /\ LET lim == parseLimit(DefaultQuery(limit, 10))
       IN /\ req' = [endpoint |-> "search", q |-> q, limit |-> limit]
          /\ IF dbFails
             THEN resp' = Reply(500, lim, <<>>)
             ELSE \E data \in Search(store, q, lim) : resp' = Reply(200, lim, data)
    /\ lastOp' = "HandlerSearch"
    /\ UNCHANGED <<store, nocoord, nIngests>>
    /\ UNCHANGED queryVars

\* Handler.Category
HandlerCategory(category, limit, dbFails) ==
    /\ nIngests + nCalls < MaxOps
    /\ nCalls' = nCalls + 1
    /\ LET lim == parseLimit(DefaultQuery(limit, 10))
       IN /\ req' = [endpoint |-> "category", category |-> category, limit |-> limit]
          /\ IF category = ""
             THEN resp' = Reply(400, 0, <<>>)
             ELSE IF dbFails
                  THEN resp' = Reply(500, lim, <<>>)
                  ELSE \E data \in FindByCategory(store, category, lim) :
                          resp' = Reply(200, lim, data)
    /\ lastOp' = "HandlerCategory"
    /\ UNCHANGED <<store, nocoord, nIngests>>
    /\ UNCHANGED queryVars

\* Handler.Trending
HandlerTrending(limit, dbFails) ==
    /\ nIngests + nCalls < MaxOps
    /\ nCalls' = nCalls + 1
    /\ LET lim == parseLimit(DefaultQuery(limit, 10))
       IN /\ req' = [endpoint |-> "trending", limit |-> limit]
          /\ IF dbFails
             THEN resp' = Reply(500, lim, <<>>)
             ELSE \E data \in All(store, lim) : resp' = Reply(200, lim, data)
    /\ lastOp' = "HandlerTrending"
    /\ UNCHANGED <<store, nocoord, nIngests>>
    /\ UNCHANGED queryVars

\* Handler.Nearby
HandlerNearby(latP, lonP, radiusP, limitP, dbFails) ==
    /\ nIngests + nCalls < MaxOps
    /\ nCalls' = nCalls + 1
    /\ LET lat == ParseFloat(latP)
           lon == ParseFloat(lonP)
           radius == ParseFloat(radiusP)
           limit == parseLimit(DefaultQuery(limitP, 20))
       IN /\ req' = [endpoint |-> "nearby", lat |-> latP, lon |-> lonP,
                     radius |-> radiusP, limit |-> limitP]
          /\ IF lat.err \/ lon.err \/ radius.err
             THEN resp' = Reply(400, 0, <<>>)
             ELSE IF Abs(lat.v) > 90 \/ Abs(lon.v) > 180 \/ radius.v <= 0
                  THEN resp' = Reply(400, 0, <<>>)
                  ELSE IF dbFails
                       THEN resp' = Reply(500, limit, <<>>)
                       ELSE \E data \in Nearby(store, lat.v, lon.v, radius.v, limit) :
                               resp' = Reply(200, limit, data)
    /\ lastOp' = "HandlerNearby"
    /\ UNCHANGED <<store, nocoord, nIngests>>
    /\ UNCHANGED queryVars

NextQuery ==
    \/ \E b \in Payloads : \E f \in Fails(Len(b)) : HandlerIngest(b, f)
    \/ \E q \in Queries : \E l \in LimitParams : \E f \in BOOLEAN : HandlerSearch(q, l, f)
    \/ \E c \in CategoryParams : \E l \in LimitParams : \E f \in BOOLEAN :
          HandlerCategory(c, l, f)
    \/ \E l \in LimitParams : \E f \in BOOLEAN : HandlerTrending(l, f)
    \/ \E n \in NearbyParams : \E f \in BOOLEAN :
          HandlerNearby(n.lat, n.lon, n.radius, n.limit, f)

SpecQuery == Init /\ [][NextQuery]_vars

\* C11: an article whose latest ingest carried no latitude/longitude is in
\* no Nearby response, whatever the query point and radius.
C11_NoCoordsNeverNearby ==
    (req.endpoint = "nearby" /\ resp.status = 200)
        => \A k \in DOMAIN resp.data : resp.data[k].art.ID \notin nocoord

Returned == {ExecArgs(resp.data[k].art) : k \in DOMAIN resp.data}

\* C12: a Nearby response holds only stored articles within the radius,
\* each with its distance from the query point, in non-decreasing order of
\* distance and at most limit of them; an article ingested with coordinates
\* and within the radius is left out only when limit closer-or-equal ones
\* are returned.
C12_NearbyClosest ==
    (req.endpoint = "nearby" /\ resp.status = 200)
        => LET data == resp.data
               d(r) == distance_km(req.lat.n, req.lon.n, r.latitude, r.longitude)
           IN /\ \A k \in DOMAIN data :
                    /\ ExecArgs(data[k].art) \in Table(store)
                    /\ data[k].DistanceKm = d(ExecArgs(data[k].art))
                    /\ data[k].DistanceKm <= req.radius.n * 1000
              /\ \A i, j \in DOMAIN data :
                    i < j => /\ data[i].DistanceKm <= data[j].DistanceKm
                             /\ data[i].art.ID # data[j].art.ID
              /\ Len(data) <= resp.limit
              /\ \A r \in Table(store) \ Returned :
                    (r.id \notin nocoord /\ d(r) <= req.radius.n * 1000)
                        => /\ Len(data) = resp.limit
                           /\ \A k \in DOMAIN data : data[k].DistanceKm <= d(r)

C12_Witness ==
    /\ req.endpoint = "nearby"
    /\ resp.status = 200
    /\ resp.limit = 2
    /\ Len(resp.data) = 2
    /\ resp.data[1].DistanceKm < resp.data[2].DistanceKm
    /\ \E r \in Table(store) \ Returned :
          distance_km(req.lat.n, req.lon.n, r.latitude, r.longitude)
              <= req.radius.n * 1000

\* C13: the cap Search puts on the number of rows is monotone in the
\* requested limit: no smaller limit the boundary can hand over gets a
\* larger cap than the limit of this request.
C13_SearchCapMonotone ==
    (req.endpoint = "search" /\ resp.status = 200)
        => \A smaller \in 1 .. resp.limit :
              SearchLimit(smaller) <= SearchLimit(resp.limit)

Served == req.endpoint \in {"search", "category", "trending", "nearby"}
              /\ resp.status \in {200, 500}

\* C15 as stated: at every query endpoint the limit handed to the service
\* is 10 when the limit parameter is absent or unparseable, and otherwise
\* the requested integer clamped to [1, 200].
C15_LimitDefault10 ==
    Served => resp.limit = IF req.limit.kind # "int" THEN 10
                           ELSE IF req.limit.n < 1 THEN 1
                           ELSE Min(req.limit.n, 200)

\* C15 amended: the limit handed to the service is the endpoint's default
\* when the parameter is absent (20 at nearby, 10 at search, category and
\* trending), 10 when it is unparseable or not positive, and otherwise the
\* requested integer capped at 200.
C15_LimitPerEndpoint ==
    Served => resp.limit = IF req.limit.kind = "absent"
                           THEN (IF req.endpoint = "nearby" THEN 20 ELSE 10)
                           ELSE IF req.limit.kind = "text" \/ req.limit.n <= 0 THEN 10
                           ELSE Min(req.limit.n, 200)

C15_Witness ==
    /\ req.endpoint = "nearby"
    /\ req.limit = Absent
    /\ resp.status = 200
    /\ resp.limit = 20
    /\ Len(resp.data) > 0

(***************************************************************************)
(* Two SummarizeArticle calls at once (specification SpecConc): the table  *)
(* holds one ingested article, and two requests run the steps of           *)
(* SummarizeArticle in any interleaving.                                   *)
(***************************************************************************)
Procs2 == {"p1", "p2"}

Ingested == {x \in Articles : x.ID = "a"}

InitConc ==
    /\ \E x \in Ingested :
          /\ store = SaveMany(<<>>, IngestDefaults(<<x>>), 0, 0).rows
          /\ ing = [batch |-> <<x>>, fail |-> 0, err |-> NoErr,
                    saved |-> SaveMany(<<>>, IngestDefaults(<<x>>), 0, 0).articles,
                    replaced |-> {}]
    /\ latest = [id \in AllIds |->
                    IF id = "a" THEN [ok |-> TRUE, row |-> store[1]] ELSE NoLatest]
    /\ uuids = 0
    /\ pc = [p \in Procs2 |-> "idle"]
    /\ art = [p \in Procs2 |-> NoArticle]
    /\ summary = [p \in Procs2 |-> <<>>]
    /\ res = [p \in Procs2 |-> Pending]
    /\ nIngests = 1
    /\ nCalls = 0
    /\ llmReqs = [id \in AllIds |-> 0]
    /\ call = [p \in Procs2 |-> [NewCall("zz", FALSE) EXCEPT !.active = FALSE]]
    /\ prev = [id \in AllIds |-> NoPrev]
    /\ fin = [id |-> "zz", body |-> NoBody, prev |-> NoPrev, persisted |-> {}, rows |-> 0]
    /\ lastOp = "Ingest"
    /\ nocoord = {}
    /\ req = NoReq
    /\ resp = NoResp
    /\ exch = DoFails
    /\ out = Pending

NextConc ==
    \/ \E p \in Procs2 : \E id \in CallIds : \E ff \in BOOLEAN : StartCall(p, id, ff)
    \/ \E p \in Procs2 : \E x \in ServiceExchanges : CallLLM(p, x)
    \/ \E p \in Procs2 : \E f \in Fails(1) : SaveSummary(p, f)
    \/ \E p \in Procs2 : \E ff \in BOOLEAN : UpdateSummary(p, ff)

SpecConc == InitConc /\ [][NextConc]_vars

\* C14: after any sequence of Ingest and SummarizeArticle steps every
\* stored article reads back with a non-nil category list, and an article
\* ingested with no categories is stored as, and read back as, the empty
\* list.
C14_CategoriesNeverNull ==
    /\ \A i \in DOMAIN store : ~ScanRow(store[i]).Categories.nil
    /\ \A p \in Procs : pc[p] # "idle" => ~art[p].Categories.nil
    /\ (lastOp = "Ingest" /\ ing.err = NoErr)
          => \A id \in IdsIn(ing.batch) \ {""} :
                LastWith(ing.batch, id).Categories.nil
                   => \A i \in RowsOf(store, id) :
                         /\ store[i].categories = <<>>
                         /\ ScanRow(store[i]).Categories = Slice(<<>>)

C14_Witness ==
    /\ lastOp = "StartCall"
    /\ pc["p1"] = "llm"
    /\ art["p1"].Categories = Slice(<<>>)
    /\ ing.err = NoErr
    /\ "a" \in IdsIn(ing.batch)
    /\ LastWith(ing.batch, "a").Categories.nil

\* C16: when SummarizeArticle(id) returns an error (no Ingest having run
\* during the call), the stored article for id is what it was when the
\* call began.
C16_ErrorLeavesStore ==
    \A p \in Procs :
        (Finished(p) /\ res[p].err # NoErr /\ call[p].ingests = nIngests)
            => {store[i] : i \in RowsOf(store, call[p].id)} = call[p].old

\* C17: when two concurrent SummarizeArticle(id) calls on one stored
\* article have both succeeded, the table holds exactly one row for id, its
\* summary is the text one of the two calls returned, and its other fields
\* are those of the ingested article.
C17_ConcurrentSummaries ==
    (nCalls = 2 /\ \A p \in Procs2 :
                      Finished(p) /\ res[p].err = NoErr /\ call[p].id = "a")
        => /\ Cardinality(RowsOf(store, "a")) = 1
           /\ \A i \in RowsOf(store, "a") :
                 /\ store[i].llm_summary \in {res[p].text : p \in Procs2}
                 /\ NonSummary(store[i]) = NonSummary(latest["a"].row)

C17_Witness ==
    /\ nCalls = 2
    /\ \A p \in Procs2 :
          Finished(p) /\ res[p].err = NoErr /\ call[p].id = "a" /\ ~call[p].cached
    /\ res["p1"].text # res["p2"].text
    /\ \A i \in RowsOf(store, "a") : store[i].llm_summary = res["p1"].text
    /\ lastOp = "UpdateSummary"
====
